---- MODULE Spec2Model ----
(***************************************************************************)
(* PCprophet, generate_features.py: the peak aligner (alligner,            *)
(* shortest_path, min_sd) and the per-complex feature pipeline (gen_feat); *)
(* differential.py: the local peak window (extract_local_peak).            *)
(*                                                                         *)
(* Peaks are fraction indices (naturals).  A peak list is a sequence of    *)
(* peaks; "aoa" is the list of the members' peak lists, in member order.   *)
(* Python lists are 0-based, the sequences here 1-based: member i of the   *)
(* code is element i+1 here, column c of min_sd is column c+1 here.        *)
(***************************************************************************)
EXTENDS Integers, Sequences, FiniteSets, TLC

VARIABLES
    aoa,        \* alligner / shortest_path / min_sd: the input list of peak lists
    max_trial,  \* shortest_path: its max_trial parameter
    pc,         \* position of the aligner run
    result,     \* shortest_path: the frontier, a list of [sol, cost]
    trial,      \* shortest_path: the trial counter
    pops,       \* number of result.pop(0) executed so far (history)
    gen,        \* the complete assignments in the order the search made them (history)
    sp,         \* outcome of shortest_path(aoa, max_trial)
    msd,        \* outcome of min_sd(aoa)
    ali,        \* outcome of alligner(aoa): its return value and the calls it made
    temp,       \* gen_feat pipeline: the input record, one [acc, peaks] per MB entry
    members,    \* ComplexProfile.members: the ProteinProfiles [acc, peaks]
    fpc,        \* position of mp_cmplx / gen_feat for the record
    pks_ali,    \* ComplexProfile.pks_ali: accession -> consensus peak
    pks,        \* ComplexProfile.pks: the peak rows, in insertion order
    shifts,     \* ComplexProfile.shifts
    width,      \* ComplexProfile.width: the slices calc_width hands to fwhm
    calls,      \* the functions called for the record, in order (history)
    out,        \* what gen_feat returned
    lines,      \* mp_cmplx: the lines of the file read so far (history)
    header,     \* mp_cmplx: header
    feat_file,  \* mp_cmplx: feat_file
    peaks_file, \* mp_cmplx: peaks_file
    fstate,     \* mp_cmplx: "open" in the loop, "returned", or "raised"
    window,     \* calc_corr: its parameter W
    cor,        \* ComplexProfile.cor
    diff,       \* ComplexProfile.diff
    visited,    \* pairwise: the pairs of member positions visited so far (history)
    cx,         \* two ComplexProfile objects processed side by side: their fields
    df,         \* extract_inte: the one row of df, its SEL and its INT split at "#"
    qloc,       \* extract_inte / extract_local_peak: the parameter q
    pksINT,     \* extract_inte: the pksINT column of the row
    valcols,    \* extract_inte: the column names it returns (vals)
    lstate      \* position of extract_inte

alignvars == <<aoa, max_trial, pc, result, trial, pops, gen, sp, msd, ali>>
featvars == <<temp, members, fpc, pks_ali, pks, shifts, width, calls, out>>
filevars == <<lines, header, feat_file, peaks_file, fstate>>
corvars == <<window, cor, diff, visited>>
twovars == <<cx>>
localvars == <<df, qloc, pksINT, valcols, lstate>>
restvars == <<filevars, corvars, twovars, localvars>>
vars == <<alignvars, featvars, restvars>>

\* mp_cmplx before its first line; the state of the file variables in the
\* specifications that do not read a file
FileIdle ==
    /\ lines = <<>>
    /\ header = <<>>
    /\ feat_file = <<>>
    /\ peaks_file = <<>>
    /\ fstate = "idle"

\* a ComplexProfile after __init__ (lines 56-57), in the specifications that
\* do not compute correlations
CorIdle ==
    /\ window = 0
    /\ cor = <<>>
    /\ diff = <<>>
    /\ visited = <<>>

\* no pair of complexes, in the specifications that process one at a time
TwoIdle == cx = <<>>

\* no row of the differential stage, in the specifications of the feature
\* stage
LocalIdle ==
    /\ df = <<>>
    /\ qloc = 0
    /\ pksINT = <<>>
    /\ valcols = <<>>
    /\ lstate = "idle"

----------------------------------------------------------------------------
(* Bounds of the model *)

\* peaks are drawn from 0..MaxPeak
MaxPeak == 3
\* a member has at most MaxPeaks detected peaks
MaxPeaks == 3
\* an aligner input has at most MaxMembers members
MaxMembers == 3
\* besides the default, shortest_path is run with the budgets 1..MaxBudget
MaxBudget == 4

\* a record has at most MaxMB entries in its MB field
MaxMB == 3
\* accessions are drawn from 1..MaxAcc
MaxAcc == 3
\* in the records, peaks are drawn from 0..MaxFeatPeak
MaxFeatPeak == 2
\* in the records, a protein has at most MaxFeatPeaks detected peaks
MaxFeatPeaks == 2

\* shortest_path's default max_trial
max_trial_default == 5000
\* test_complex: the smallest and the largest accepted number of members
min_members == 2
max_members == 100
\* calc_width: half the width of the window around the consensus peak
q == 5
\* the number of fractions of a profile
F == 72

----------------------------------------------------------------------------
(* Python values *)

\* a call's outcome: None, a returned list, or a raised exception
None == [none |-> TRUE, val |-> <<>>, raised |-> FALSE]
Value(v) == [none |-> FALSE, val |-> v, raised |-> FALSE]
Raised == [none |-> FALSE, val |-> <<>>, raised |-> TRUE]

\* truthiness of an outcome ("if pks:"): None and the empty list are false
Truthy(o) == ~o.none /\ o.val # <<>>

Abs(x) == IF x < 0 THEN -x ELSE x

\* set(x) of a list
SetOf(s) == {s[i] : i \in 1..Len(s)}

\* max(...) of a non-empty set of integers
Max(S) == CHOOSE m \in S : \A x \in S : x <= m

----------------------------------------------------------------------------
(* minimize: the sum of |a - b| over all pairs of a solution *)

RECURSIVE minimize_inner(_, _, _)
minimize_inner(solution, index, nr_2_indx) ==
    IF nr_2_indx > Len(solution) THEN 0
    ELSE Abs(solution[index] - solution[nr_2_indx])
         + minimize_inner(solution, index, nr_2_indx + 1)

RECURSIVE minimize_outer(_, _)
minimize_outer(solution, index) ==
    IF index > Len(solution) THEN 0
    ELSE minimize_inner(solution, index, index + 1)
         + minimize_outer(solution, index + 1)

minimize(solution) == minimize_outer(solution, 1)

----------------------------------------------------------------------------
(* add_top: insert item before the first entry whose cost is not smaller *)

\* a variant that inserts after the entries of equal cost
RECURSIVE add_top_index_after_equal(_, _, _)
add_top_index_after_equal(res, item, index) ==
    IF index <= Len(res) /\ res[index].cost <= item.cost
    THEN add_top_index_after_equal(res, item, index + 1)
    ELSE index

RECURSIVE add_top_index(_, _, _)
add_top_index(res, item, index) ==
    IF index <= Len(res) /\ res[index].cost < item.cost
    THEN add_top_index(res, item, index + 1)
    ELSE index

\* a variant that appends at the end, unsorted
add_top_append(res, item) == Append(res, item)

add_top(res, item) ==
    LET index == add_top_index(res, item, 1)
    IN  SubSeq(res, 1, index - 1) \o <<item>> \o SubSeq(res, index, Len(res))

----------------------------------------------------------------------------
(* shortest_path: best-first search over partial assignments *)

\* lines 265-267: the frontier starts with the first member's peaks, cost 0
sp_init(a) ==
    [result |-> [i \in 1..Len(a[1]) |-> [sol |-> <<a[1][i]>>, cost |-> 0]],
     trial  |-> 1,
     pops   |-> 0,
     done   |-> FALSE,
     ret    |-> None]

\* a variant without line 281: a new candidate keeps the cost 0 of line 279
RECURSIVE sp_expand_no_cost(_, _, _, _)
sp_expand_no_cost(res, sol, peaks, i) ==
    IF i > Len(peaks) THEN res
    ELSE LET new_sol == Append(sol, peaks[i])
             new_pk  == [sol |-> new_sol, cost |-> 0]
         IN  sp_expand_no_cost(add_top(res, new_pk), sol, peaks, i + 1)

\* lines 278-282: extend sol by each peak of the next member, in list order
RECURSIVE sp_expand(_, _, _, _)
sp_expand(res, sol, peaks, i) ==
    IF i > Len(peaks) THEN res
    ELSE LET new_sol == Append(sol, peaks[i])
             new_pk  == [sol |-> new_sol, cost |-> minimize(new_sol)]
         IN  sp_expand(add_top(res, new_pk), sol, peaks, i + 1)

\* lines 268-282: one iteration of the loop.  result.pop(0) on an empty
\* frontier raises IndexError.
sp_iter(a, mt, s) ==
    IF s.trial = mt
    THEN [s EXCEPT !.done = TRUE, !.ret = None]
    ELSE IF s.result = <<>>
    THEN [s EXCEPT !.trial = s.trial + 1, !.done = TRUE, !.ret = Raised]
    ELSE LET top  == Head(s.result)
             rest == Tail(s.result)
         IN  IF Len(top.sol) = Len(a)
             THEN [s EXCEPT !.result = rest, !.trial = s.trial + 1,
                            !.pops = s.pops + 1,
                            !.done = TRUE, !.ret = Value(top.sol)]
             ELSE [s EXCEPT !.result = sp_expand(rest, top.sol,
                                                 a[Len(top.sol) + 1], 1),
                            !.trial = s.trial + 1, !.pops = s.pops + 1]

RECURSIVE sp_loop(_, _, _)
sp_loop(a, mt, s) == IF s.done THEN s ELSE sp_loop(a, mt, sp_iter(a, mt, s))

\* the whole function: its return value
shortest_path(a, mt) == sp_loop(a, mt, sp_init(a)).ret

----------------------------------------------------------------------------
(* min_sd: the column of the padded peak table with the smallest standard  *)
(* deviation.  The peak lists hold no None, so the filter of line 233 and  *)
(* the slice of line 235 leave them as they are.                           *)

\* line 234
min_sd_ln(a) == Max({Len(a[m]) : m \in 1..Len(a)})

\* a variant that pads with the first element
min_sd_pad_first(x, ln) ==
    IF x = <<>> THEN x
    ELSE [i \in 1..ln |-> IF i <= Len(x) THEN x[i] ELSE x[1]]

\* lines 236-241: repeat the last element up to length ln; an empty list
\* has no last element (IndexError, break) and stays empty
min_sd_pad(x, ln) ==
    IF x = <<>> THEN x
    ELSE [i \in 1..ln |-> IF i <= Len(x) THEN x[i] ELSE x[Len(x)]]

rf_pk2(a) == [m \in 1..Len(a) |-> min_sd_pad(a[m], min_sd_ln(a))]

RECURSIVE col_sum(_, _, _)
col_sum(t, c, m) == IF m > Len(t) THEN 0 ELSE t[m][c] + col_sum(t, c, m + 1)

RECURSIVE col_sumsq(_, _, _)
col_sumsq(t, c, m) ==
    IF m > Len(t) THEN 0 ELSE t[m][c] * t[m][c] + col_sumsq(t, c, m + 1)

\* line 245: np.std(col, ddof=1) of column c is sqrt(sd_key / (n * (n - 1)))
\* with n = Len(t) the same for every column, so columns compare by
\* standard deviation as they compare by sd_key.  (With n = 1 every column
\* is NaN and line 247 finds index 0; sd_key is 0 for every column then.)
sd_key(t, c) == Len(t) * col_sumsq(t, c, 1) - col_sum(t, c, 1) * col_sum(t, c, 1)

\* line 247: sd.index(min(sd)), the first column of minimal deviation
sd_index(t, ln) ==
    CHOOSE c \in 1..ln :
        /\ \A d \in 1..ln : sd_key(t, c) <= sd_key(t, d)
        /\ \A d \in 1..(c - 1) : sd_key(t, d) # sd_key(t, c)

\* lines 230-261, for lists that are all non-empty or all empty
min_sd(a) ==
    LET ln == min_sd_ln(a)
        t  == rf_pk2(a)
    IN  IF ln = 0 THEN None
        ELSE LET sd == sd_index(t, ln)
             IN  Value([m \in 1..Len(a) |-> t[m][sd]])

----------------------------------------------------------------------------
(* alligner: intersection, then search, then min_sd.  mt is the budget the *)
(* search runs with (line 297 leaves it at shortest_path's default).       *)
(* The outcome records the return value and the functions called.          *)

\* line 292
candidate(a) == {x \in SetOf(a[1]) : \A i \in 1..Len(a) : x \in SetOf(a[i])}

\* lines 297-302, reached when no list is empty and no peak is common.
\* An exception of the search propagates.
alligner_search(a, mt) ==
    LET found == shortest_path(a, mt)
    IN  IF found.raised
        THEN [ret |-> found, calls |-> <<"shortest_path">>]
        ELSE IF Truthy(found)
        THEN [ret |-> found, calls |-> <<"shortest_path">>]
        ELSE [ret |-> min_sd(a), calls |-> <<"shortest_path", "min_sd">>]

\* a variant that returns the smallest common peak
alligner_min(a, mt) ==
    IF \E i \in 1..Len(a) : a[i] = <<>>
    THEN [ret |-> None, calls |-> <<>>]
    ELSE IF candidate(a) # {}
    THEN [ret |-> Value([i \in 1..Len(a) |->
                            CHOOSE m \in candidate(a) :
                                \A x \in candidate(a) : m <= x]),
          calls |-> <<>>]
    ELSE alligner_search(a, mt)

\* a variant that returns the common peak once, not once per member
alligner_single(a, mt) ==
    IF \E i \in 1..Len(a) : a[i] = <<>>
    THEN [ret |-> None, calls |-> <<>>]
    ELSE IF candidate(a) # {}
    THEN [ret |-> Value(<<Max(candidate(a))>>), calls |-> <<>>]
    ELSE alligner_search(a, mt)

\* lines 284-302
alligner(a, mt) ==
    IF \E i \in 1..Len(a) : a[i] = <<>>
    THEN [ret |-> None, calls |-> <<>>]
    ELSE IF candidate(a) # {}
    THEN [ret |-> Value([i \in 1..Len(a) |-> Max(candidate(a))]),
          calls |-> <<>>]
    ELSE alligner_search(a, mt)

----------------------------------------------------------------------------
(* Inputs of the aligner *)

Peaks == 0..MaxPeak

\* a member's detected peaks: distinct fraction indices in increasing order
RECURSIVE SeqsUpTo(_, _)
SeqsUpTo(S, n) ==
    IF n = 0 THEN {<<>>}
    ELSE LET shorter == SeqsUpTo(S, n - 1)
         IN  shorter \cup {Append(s, x) : s \in {t \in shorter : Len(t) = n - 1},
                                          x \in S}

Increasing(s) == \A i \in 1..(Len(s) - 1) : s[i] < s[i + 1]

PeakLists == {s \in SeqsUpTo(Peaks, MaxPeaks) : Increasing(s)}

AoAs == SeqsUpTo(PeakLists, MaxMembers) \ {<<>>}

Budgets == (1..MaxBudget) \cup {max_trial_default}

NonEmptyLists(a) == \A i \in 1..Len(a) : a[i] # <<>>

----------------------------------------------------------------------------
(* The aligner run: alligner on the input, then its two helpers on the     *)
(* same input, the search one loop iteration at a time.                    *)

Init ==
    /\ aoa \in AoAs
    /\ max_trial \in Budgets
    /\ pc = "alligner"
    /\ result = <<>>
    /\ trial = 0
    /\ pops = 0
    /\ gen = <<>>
    /\ sp = None
    /\ msd = None
    /\ ali = [ret |-> None, calls |-> <<>>]
    /\ temp = <<>>
    /\ members = <<>>
    /\ fpc = "idle"
    /\ pks_ali = <<>>
    /\ pks = <<>>
    /\ shifts = <<>>
    /\ width = <<>>
    /\ calls = <<>>
    /\ out = [none |-> TRUE, row |-> <<>>, peaks |-> <<>>]
    /\ FileIdle
    /\ CorIdle
    /\ TwoIdle
    /\ LocalIdle

\* alligner(aoa), lines 284-302
Alligner ==
    /\ pc = "alligner"
    /\ ali' = alligner(aoa, max_trial)
    /\ pc' = IF NonEmptyLists(aoa) THEN "shortest_path" ELSE "done"
    /\ UNCHANGED <<aoa, max_trial, result, trial, pops, gen, sp, msd, featvars, restvars>>

\* shortest_path, lines 265-267
ShortestPathStart ==
    /\ pc = "shortest_path"
    /\ result' = sp_init(aoa).result
    /\ trial' = sp_init(aoa).trial
    /\ gen' = IF Len(aoa) = 1 THEN [i \in 1..Len(aoa[1]) |-> <<aoa[1][i]>>]
              ELSE <<>>
    /\ pc' = "loop"
    /\ UNCHANGED <<aoa, max_trial, pops, sp, msd, ali, featvars, restvars>>

\* shortest_path, lines 268-282: one iteration of the loop
ShortestPathIter ==
    /\ pc = "loop"
    /\ LET s == [result |-> result, trial |-> trial, pops |-> pops,
                 done |-> FALSE, ret |-> None]
           n == sp_iter(aoa, max_trial, s)
           top == Head(result)
       IN  /\ result' = n.result
           /\ trial' = n.trial
           /\ pops' = n.pops
           /\ gen' = IF n.pops > pops /\ Len(top.sol) + 1 = Len(aoa)
                     THEN gen \o [i \in 1..Len(aoa[Len(aoa)]) |->
                                     Append(top.sol, aoa[Len(aoa)][i])]
                     ELSE gen
           /\ IF n.done
              THEN sp' = n.ret /\ pc' = "min_sd"
              ELSE sp' = sp /\ pc' = "loop"
    /\ UNCHANGED <<aoa, max_trial, msd, ali, featvars, restvars>>

\* min_sd(aoa), lines 230-261
MinSd ==
    /\ pc = "min_sd"
    /\ msd' = min_sd(aoa)
    /\ pc' = "done"
    /\ UNCHANGED <<aoa, max_trial, result, trial, pops, gen, sp, ali, featvars, restvars>>

Next == Alligner \/ ShortestPathStart \/ ShortestPathIter \/ MinSd

Spec == Init /\ [][Next]_vars

----------------------------------------------------------------------------
(* Properties of the aligner, checked under Spec *)

\* the peaks every member has
Common(a) ==
    {p \in Peaks : \A i \in 1..Len(a) : \E k \in 1..Len(a[i]) : a[i][k] = p}

\* all ways to take one peak from each member's list, in member order
Selections(a) ==
    {f \in [1..Len(a) -> Peaks] : \A i \in 1..Len(a) : f[i] \in SetOf(a[i])}

RECURSIVE SumAbsOver(_, _)
SumAbsOver(s, P) ==
    IF P = {} THEN 0
    ELSE LET e == CHOOSE x \in P : TRUE
         IN  Abs(s[e[1]] - s[e[2]]) + SumAbsOver(s, P \ {e})

\* the sum of pairwise absolute differences of a selection
PairCost(s) ==
    SumAbsOver(s, {e \in (1..Len(s)) \X (1..Len(s)) : e[1] < e[2]})

RECURSIVE SumSqOver(_, _)
SumSqOver(v, P) ==
    IF P = {} THEN 0
    ELSE LET e == CHOOSE x \in P : TRUE
         IN  (v[e[1]] - v[e[2]]) * (v[e[1]] - v[e[2]]) + SumSqOver(v, P \ {e})

\* the list x right-padded with its last element, at position c
PaddedAt(x, c) == IF c <= Len(x) THEN x[c] ELSE x[Len(x)]

\* column c of the padded table: one value per member, in member order
Column(a, c) == [m \in 1..Len(a) |-> PaddedAt(a[m], c)]

\* n * (n - 1) times the sample variance of a column v of n values:
\* n * sum of squared deviations from the mean = sum over pairs of (x - y)^2
Spread(v) == SumSqOver(v, {e \in (1..Len(v)) \X (1..Len(v)) : e[1] < e[2]})

Longest(a) == CHOOSE n \in 0..MaxPeaks + 1 :
                  /\ \A m \in 1..Len(a) : Len(a[m]) <= n
                  /\ \E m \in 1..Len(a) : Len(a[m]) = n

AliDone == pc # "alligner"
SearchDone == pc \in {"min_sd", "done"} /\ NonEmptyLists(aoa)
AllDone == pc = "done" /\ NonEmptyLists(aoa)

\* C1: when no list is empty and the lists have a common peak, alligner
\* returns, for every member, the largest common peak, and calls neither
\* shortest_path nor min_sd.
C1_Tier1 ==
    (AliDone /\ NonEmptyLists(aoa) /\ Common(aoa) # {}) =>
        /\ ~ali.ret.none /\ ~ali.ret.raised
        /\ Len(ali.ret.val) = Len(aoa)
        /\ \A i \in 1..Len(aoa) :
              /\ ali.ret.val[i] \in Common(aoa)
              /\ \A p \in Common(aoa) : p <= ali.ret.val[i]
        /\ ali.calls = <<>>

\* C1 witness: three members with different lists that share two peaks
C1_Witness ==
    /\ AliDone /\ NonEmptyLists(aoa) /\ Len(aoa) = 3
    /\ Cardinality(Common(aoa)) = 2
    /\ aoa[1] # aoa[2] /\ aoa[2] # aoa[3]
    /\ ali.ret = Value(<<2, 2, 2>>)
    /\ ali.calls = <<>>

\* C2: when the search returns an assignment, it takes one peak from each
\* member's list, in member order, and no selection of one peak per member
\* has a smaller sum of pairwise absolute differences.
C2_SearchOptimal ==
    (SearchDone /\ ~sp.none) =>
        /\ ~sp.raised
        /\ sp.val \in Selections(aoa)
        /\ \A f \in Selections(aoa) : PairCost(sp.val) <= PairCost(f)

\* C2 witness: a search over three members without a common peak that
\* popped more than one candidate per member and had worse selections
C2_Witness ==
    /\ SearchDone /\ ~sp.none /\ Len(aoa) = 3 /\ Common(aoa) = {}
    /\ pops > 4
    /\ \E f \in Selections(aoa) : PairCost(f) > PairCost(sp.val)
    /\ PairCost(sp.val) > 0

\* C3 (as claimed): the search reports failure only after max_trial
\* candidates have been popped.
C3_BudgetFullyUsed ==
    (SearchDone /\ sp.none) => pops = max_trial

\* C4: when the search fails, alligner calls min_sd and returns its result,
\* which is never None: the column (one value per member, in member order)
\* of the lists right-padded with their last element whose sample standard
\* deviation is minimal.
C4_Fallback ==
    (AllDone /\ Common(aoa) = {} /\ sp.none) =>
        /\ ali.calls = <<"shortest_path", "min_sd">>
        /\ ali.ret = msd
        /\ ~ali.ret.none /\ ~ali.ret.raised
        /\ \E c \in 1..Longest(aoa) :
              /\ ali.ret.val = Column(aoa, c)
              /\ \A d \in 1..Longest(aoa) :
                    Spread(Column(aoa, c)) <= Spread(Column(aoa, d))

\* C4 witness: the search failed and min_sd chose the third column, where
\* a list of two peaks was padded with its last one
C4_Witness ==
    /\ AllDone /\ Common(aoa) = {} /\ sp.none
    /\ aoa = << <<0, 1, 2>>, <<2, 3>>, <<3>> >>
    /\ ali.ret = Value(<<2, 3, 3>>)

\* C5: alligner returns None, without running any tier, if some member's
\* list is empty; otherwise it returns one value per member, the value at
\* position i being one of member i's peaks.
C5_NullOrOnePerMember ==
    AliDone =>
        IF \E i \in 1..Len(aoa) : Len(aoa[i]) = 0
        THEN ali.ret = None /\ ali.calls = <<>>
        ELSE /\ ~ali.ret.none /\ ~ali.ret.raised
             /\ Len(ali.ret.val) = Len(aoa)
             /\ \A i \in 1..Len(aoa) : ali.ret.val[i] \in SetOf(aoa[i])

\* C5 witness: only the last member's list is empty, the others share a peak
C5_Witness ==
    /\ AliDone /\ Len(aoa) = 3
    /\ aoa[1] # <<>> /\ aoa[2] # <<>> /\ aoa[3] = <<>>
    /\ SetOf(aoa[1]) \cap SetOf(aoa[2]) # {}
    /\ ali.ret = None

\* index of the first and of the last element of g equal to x
FirstAt(g, x) == CHOOSE k \in 1..Len(g) : g[k] = x /\ \A j \in 1..(k - 1) : g[j] # x
LastAt(g, x) == CHOOSE k \in 1..Len(g) : g[k] = x /\ \A j \in (k + 1)..Len(g) : g[j] # x

\* tier 3: min_sd returns the lowest-index column among those of minimal
\* standard deviation
Tier3LowestColumn ==
    AllDone =>
        \E c \in 1..Longest(aoa) :
            /\ msd = Value(Column(aoa, c))
            /\ \A d \in 1..Longest(aoa) :
                  Spread(Column(aoa, c)) <= Spread(Column(aoa, d))
            /\ \A d \in 1..(c - 1) :
                  Spread(Column(aoa, d)) # Spread(Column(aoa, c))

\* C6 (as claimed): among the complete assignments of equal minimal cost the
\* search returns the one it made first; min_sd returns the lowest-index
\* column of minimal standard deviation.
C6_FirstFound ==
    /\ (SearchDone /\ ~sp.none) =>
          \A j \in 1..(FirstAt(gen, sp.val) - 1) :
              PairCost(gen[j]) # PairCost(sp.val)
    /\ Tier3LowestColumn

\* C6 (amended): over two or more members, among the complete assignments
\* of equal minimal cost the search has made, it returns the one it made
\* last (add_top puts a new candidate before the entries of equal cost);
\* min_sd returns the lowest-index column of minimal standard deviation.
C6_LastFound ==
    /\ (SearchDone /\ ~sp.none /\ Len(aoa) >= 2) =>
          /\ \E k \in 1..Len(gen) : gen[k] = sp.val
          /\ \A j \in (LastAt(gen, sp.val) + 1)..Len(gen) :
                PairCost(gen[j]) # PairCost(sp.val)
    /\ Tier3LowestColumn

\* C6 witness: two complete assignments of the same minimal cost were made,
\* the search returned the later one, and two columns tie in min_sd
C6_Witness ==
    /\ AllDone /\ ~sp.none
    /\ \E j \in 1..(FirstAt(gen, sp.val) - 1) :
          PairCost(gen[j]) = PairCost(sp.val)
    /\ \E c, d \in 1..Longest(aoa) :
          /\ c < d
          /\ msd = Value(Column(aoa, c))
          /\ Column(aoa, c) # Column(aoa, d)
          /\ Spread(Column(aoa, c)) = Spread(Column(aoa, d))

\* sol takes one peak from each of the first Len(sol) members, in member
\* order
PrefixSelection(sol, a) ==
    /\ Len(sol) \in 1..Len(a)
    /\ \A i \in 1..Len(sol) : sol[i] \in SetOf(a[i])

\* C23: at the start of every iteration of shortest_path's loop (the lists
\* being non-empty) the frontier is not empty, every entry is a prefix
\* selection whose cost is minimize of it, the costs are in non-decreasing
\* order, so that the entry pop(0) removes has the smallest cost; the pop
\* never raises.
C23_Frontier ==
    /\ ~sp.raised
    /\ pc = "loop" =>
          /\ result # <<>>
          /\ \A k \in 1..Len(result) :
                /\ PrefixSelection(result[k].sol, aoa)
                /\ result[k].cost = minimize(result[k].sol)
                /\ result[k].cost = PairCost(result[k].sol)
          /\ \A k \in 1..(Len(result) - 1) :
                result[k].cost <= result[k + 1].cost
          /\ \A k \in 1..Len(result) : Head(result).cost <= result[k].cost

\* C23 witness: after two pops the frontier of a search over three members
\* holds assignments of one, two and three members, at least four entries
\* and entries of different costs
C23_Witness ==
    /\ pc = "loop" /\ Len(aoa) = 3 /\ pops = 2
    /\ \A n \in 1..3 : \E k \in 1..Len(result) : Len(result[k].sol) = n
    /\ Len(result) >= 4
    /\ Head(result).cost < result[Len(result)].cost

----------------------------------------------------------------------------
(* ProteinProfile and ComplexProfile.  A protein is [acc, peaks]: its       *)
(* accession and the peaks calc_peaks stored for its intensity vector.     *)
(* pks_ali maps an accession to a number [nan |-> FALSE, v |-> n] or to    *)
(* NaN.                                                                    *)

NaN == [nan |-> TRUE, v |-> 0]
Num(n) == [nan |-> FALSE, v |-> n]

\* lines 69-70
get_members(mem) == [i \in 1..Len(mem) |-> mem[i].acc]

\* a variant that keeps repeated accessions
format_hash_keep(t) == [i \in 1..Len(t) |-> [acc |-> t[i].acc, peaks |-> t[i].peaks]]

\* lines 312-318: the entries of MB in order, repeated accessions skipped
RECURSIVE format_hash_loop(_, _, _)
format_hash_loop(t, idx, mem) ==
    IF idx > Len(t) THEN mem
    ELSE IF t[idx].acc \in SetOf(get_members(mem))
    THEN format_hash_loop(t, idx + 1, mem)
    ELSE format_hash_loop(t, idx + 1,
                          Append(mem, [acc |-> t[idx].acc, peaks |-> t[idx].peaks]))

\* lines 305-319
format_hash(t) == format_hash_loop(t, 1, <<>>)

\* a variant whose upper limit is off by one
test_complex_101(mem) ==
    ~(Len(mem) < min_members \/ Len(mem) > max_members + 1)

\* lines 60-64
test_complex(mem) ==
    ~(Len(mem) < min_members \/ Len(mem) > max_members)

\* dict(zip(keys, vals)): a later value of a repeated key replaces the earlier
DictZip(keys, vals) ==
    LET n == IF Len(keys) < Len(vals) THEN Len(keys) ELSE Len(vals)
    IN  [k \in {keys[i] : i \in 1..n} |->
            vals[CHOOSE i \in 1..n :
                    keys[i] = k /\ \A j \in (i + 1)..n : keys[j] # k]]

\* d.update(e)
DictUpdate(d, e) ==
    [k \in (DOMAIN d) \cup (DOMAIN e) |-> IF k \in DOMAIN e THEN e[k] ELSE d[k]]

\* the k-th smallest element of a list
KthSmallest(v, k) ==
    CHOOSE x \in SetOf(v) :
        /\ Cardinality({i \in 1..Len(v) : v[i] < x}) < k
        /\ Cardinality({i \in 1..Len(v) : v[i] <= x}) >= k

\* st.medi: the median, given as twice its value (a whole number): the
\* middle element of the sorted list, or the mean of the two middle ones
medi(v) ==
    LET n == Len(v)
    IN  IF n % 2 = 1 THEN 2 * KthSmallest(v, (n + 1) \div 2)
        ELSE KthSmallest(v, n \div 2) + KthSmallest(v, n \div 2 + 1)

\* Python's round of a non-negative number given as twice its value:
\* halves go to the even neighbour
round(twice) ==
    IF twice % 2 = 0 THEN twice \div 2
    ELSE LET low == (twice - 1) \div 2
         IN  IF low % 2 = 0 THEN low ELSE low + 1

\* a variant that imputes the first aligned peak
impute_first(ali_pk) == ali_pk[1]

\* line 147
impute(ali_pk) == round(medi(ali_pk))

\* lines 151-157: self.pks gets one row per accession, in the order of the
\* accessions' first members; the row is that of the accession's last
\* member.  PKS is the member's peaks, or the imputed value alone, SEL its
\* consensus peak.
align_peaks_rows(mem, d, rows) ==
    LET idx    == [i \in 1..Len(mem) |-> i]
        firsts == SelectSeq(idx, LAMBDA i :
                      /\ \A j \in 1..(i - 1) : mem[j].acc # mem[i].acc
                      /\ \A r \in 1..Len(rows) : rows[r].MB # mem[i].acc)
        last(a) == mem[CHOOSE i \in 1..Len(mem) :
                          /\ mem[i].acc = a
                          /\ \A j \in (i + 1)..Len(mem) : mem[j].acc # a]
        row(a) == [MB  |-> a,
                   PKS |-> IF last(a).peaks # <<>> THEN last(a).peaks
                           ELSE <<d[a].v>>,
                   SEL |-> d[a]]
    IN  [r \in 1..Len(rows) |->
            IF rows[r].MB \in SetOf(get_members(mem)) THEN row(rows[r].MB)
            ELSE rows[r]]
        \o [i \in 1..Len(firsts) |-> row(mem[firsts[i]].acc)]

\* a variant without the update of line 150: every member, with peaks or
\* not, gets the rounded median
align_peaks_found_all_median(mem, rows, nan_members, mb_pres, al) ==
    IF al.ret.none \/ al.ret.raised
    THEN [ret |-> "raise", pks_ali |-> <<>>, pks |-> rows,
          calls |-> <<"alligner">> \o al.calls]
    ELSE LET ali_pk == al.ret.val
             md     == impute(ali_pk)
             d      == DictZip(get_members(mem),
                               [i \in 1..Len(mem) |-> Num(md)])
         IN  [ret |-> "True", pks_ali |-> d,
              pks |-> align_peaks_rows(mem, d, rows),
              calls |-> <<"alligner">> \o al.calls]

\* lines 146-158, with alligner's outcome al
align_peaks_found(mem, rows, nan_members, mb_pres, al) ==
    IF al.ret.none \/ al.ret.raised
    THEN [ret |-> "raise", pks_ali |-> <<>>, pks |-> rows,
          calls |-> <<"alligner">> \o al.calls]
    ELSE LET ali_pk == al.ret.val
             md     == impute(ali_pk)
             d      == DictUpdate(
                           DictZip(nan_members,
                                   [i \in 1..Len(nan_members) |-> Num(md)]),
                           DictZip(mb_pres,
                                   [i \in 1..Len(ali_pk) |-> Num(ali_pk[i])]))
         IN  [ret |-> "True", pks_ali |-> d,
              pks |-> align_peaks_rows(mem, d, rows),
              calls |-> <<"alligner">> \o al.calls]

\* a variant that gives up as soon as one member has no peak
align_peaks_any_missing(mem, rows) ==
    LET missing     == SelectSeq(mem, LAMBDA m : m.peaks = <<>>)
        nan_members == get_members(missing)
        present     == SelectSeq(mem, LAMBDA m : m.peaks # <<>>)
        pres        == [i \in 1..Len(present) |-> present[i].peaks]
        mb_pres     == SelectSeq(get_members(mem),
                                 LAMBDA x : x \notin SetOf(nan_members))
    IN  IF nan_members # <<>>
        THEN [ret |-> "None",
              pks_ali |-> DictZip(nan_members,
                                  [i \in 1..Len(nan_members) |-> NaN]),
              pks |-> rows, calls |-> <<>>]
        ELSE align_peaks_found(mem, rows, nan_members, mb_pres,
                               alligner(pres, max_trial_default))

\* lines 131-158: ret is what the method returns, pks_ali and pks what it
\* leaves in the object, calls what it called
align_peaks(mem, rows) ==
    LET missing     == SelectSeq(mem, LAMBDA m : m.peaks = <<>>)
        nan_members == get_members(missing)
        present     == SelectSeq(mem, LAMBDA m : m.peaks # <<>>)
        pres        == [i \in 1..Len(present) |-> present[i].peaks]
        mb_pres     == SelectSeq(get_members(mem),
                                 LAMBDA x : x \notin SetOf(nan_members))
    IN  IF nan_members = get_members(mem)
        THEN [ret |-> "None",
              pks_ali |-> DictZip(nan_members,
                                  [i \in 1..Len(nan_members) |-> NaN]),
              pks |-> rows, calls |-> <<>>]
        ELSE align_peaks_found(mem, rows, nan_members, mb_pres,
                               alligner(pres, max_trial_default))

\* a[start:stop] of a list of n elements: the 0-based indices start..stop-1
\* after Python's handling of negative and overlong bounds
SliceBound(i, n) ==
    IF i < 0 THEN (IF i + n < 0 THEN 0 ELSE i + n)
    ELSE (IF i > n THEN n ELSE i)

PySlice(start, stop, n) ==
    [start |-> SliceBound(start, n), stop |-> SliceBound(stop, n)]

\* lines 183-187: per member, the slice of its intensities handed to fwhm
calc_width(mem, d) ==
    [i \in 1..Len(mem) |->
        LET peak == d[mem[i].acc].v
        IN  PySlice(peak - q, peak + q, F)]

\* st.fast_comb(members, 2): the index pairs i < j of n members, in the
\* order of the first and then of the second index
fast_comb(n) ==
    SelectSeq([k \in 1..(n * n) |-> <<((k - 1) \div n) + 1, ((k - 1) % n) + 1>>],
              LAMBDA pr : pr[1] < pr[2])

\* a variant without the absolute value
calc_shift_signed(d, ids) == d[ids[1]].v - d[ids[2]].v

\* line 174
calc_shift(d, ids) == Abs(d[ids[1]].v - d[ids[2]].v)

\* the sum of v[lo..hi]
RECURSIVE SumSeq(_, _, _)
SumSeq(v, lo, hi) ==
    IF lo > hi THEN 0
    ELSE IF lo = hi THEN v[lo]
    ELSE LET mid == (lo + hi) \div 2
         IN  SumSeq(v, lo, mid) + SumSeq(v, mid + 1, hi)

\* lines 164-171, the shifts: one per pair, then their mean sum / n
pairwise(mem, d) ==
    LET pairs == fast_comb(Len(mem))
        sh    == [k \in 1..Len(pairs) |->
                     calc_shift(d, <<mem[pairs[k][1]].acc, mem[pairs[k][2]].acc>>)]
    IN  [sum |-> SumSeq(sh, 1, Len(sh)), n |-> Len(sh)]

\* lines 190-207, the fields that are modelled
create_row(mem, sh, w) == [MB |-> get_members(mem), SHFT |-> sh, W |-> w]

----------------------------------------------------------------------------
(* Input records *)

FeatPeakLists ==
    {s \in SeqsUpTo(0..MaxFeatPeak, MaxFeatPeaks) : Increasing(s)}

Entries == [acc : 1..MaxAcc, peaks : FeatPeakLists]

\* records of max_members and max_members + 1 different proteins, all with
\* the same peaks
LargeTemps ==
    {[i \in 1..n |-> [acc |-> i, peaks |-> pl]] :
        n \in {max_members, max_members + 1}, pl \in FeatPeakLists}

\* the record of the end-to-end example: two proteins with the single peaks
\* 4 and 5
ExampleTemps == {<<[acc |-> 1, peaks |-> <<4>>], [acc |-> 2, peaks |-> <<5>>]>>}

Temps == SeqsUpTo(Entries, MaxMB) \cup LargeTemps \cup ExampleTemps

NoneNone == [none |-> TRUE, row |-> <<>>, peaks |-> <<>>]

----------------------------------------------------------------------------
(* mp_cmplx for one record: format_hash, then gen_feat call by call *)

InitFeat ==
    /\ temp \in Temps
    /\ members = <<>>
    /\ fpc = "format_hash"
    /\ pks_ali = <<>>
    /\ pks = <<>>
    /\ shifts = <<>>
    /\ width = <<>>
    /\ calls = <<>>
    /\ out = NoneNone
    /\ aoa = <<>>
    /\ max_trial = max_trial_default
    /\ pc = "idle"
    /\ result = <<>>
    /\ trial = 0
    /\ pops = 0
    /\ gen = <<>>
    /\ sp = None
    /\ msd = None
    /\ ali = [ret |-> None, calls |-> <<>>]
    /\ FileIdle
    /\ CorIdle
    /\ TwoIdle
    /\ LocalIdle

\* line 360
FormatHash ==
    /\ fpc = "format_hash"
    /\ members' = format_hash(temp)
    /\ calls' = Append(calls, "format_hash")
    /\ fpc' = "test_complex"
    /\ UNCHANGED <<temp, pks_ali, pks, shifts, width, out, alignvars, restvars>>

\* a variant that goes on to alignment whatever the size
TestComplex_no_reject ==
    /\ fpc = "test_complex"
    /\ calls' = Append(calls, "test_complex")
    /\ fpc' = "align_peaks"
    /\ out' = NoneNone
    /\ UNCHANGED <<temp, members, pks_ali, pks, shifts, width, alignvars, restvars>>

\* line 326, left operand; line 332 when it is false
TestComplex ==
    /\ fpc = "test_complex"
    /\ calls' = Append(calls, "test_complex")
    /\ fpc' = IF test_complex(members) THEN "align_peaks" ELSE "returned"
    /\ out' = NoneNone
    /\ UNCHANGED <<temp, members, pks_ali, pks, shifts, width, alignvars, restvars>>

\* line 326, right operand; line 332 when it is None
AlignPeaks ==
    /\ fpc = "align_peaks"
    /\ LET r == align_peaks(members, pks)
       IN  /\ pks_ali' = r.pks_ali
           /\ pks' = r.pks
           /\ calls' = Append(calls, "align_peaks") \o r.calls
           /\ fpc' = CASE r.ret = "True" -> "calc_go_score"
                       [] r.ret = "None" -> "returned"
                       [] OTHER -> "raised"
    /\ out' = NoneNone
    /\ UNCHANGED <<temp, members, shifts, width, alignvars, restvars>>

\* line 327: the score comes from the GO scorer
CalcGoScore ==
    /\ fpc = "calc_go_score"
    /\ calls' = Append(calls, "calc_go_score")
    /\ fpc' = "calc_width"
    /\ UNCHANGED <<temp, members, pks_ali, pks, shifts, width, out, alignvars, restvars>>

\* line 328
CalcWidth ==
    /\ fpc = "calc_width"
    /\ width' = calc_width(members, pks_ali)
    /\ calls' = Append(calls, "calc_width")
    /\ fpc' = "pairwise"
    /\ UNCHANGED <<temp, members, pks_ali, pks, shifts, out, alignvars, restvars>>

\* line 329
Pairwise ==
    /\ fpc = "pairwise"
    /\ shifts' = pairwise(members, pks_ali)
    /\ calls' = Append(calls, "pairwise")
    /\ fpc' = "create_row"
    /\ UNCHANGED <<temp, members, pks_ali, pks, width, out, alignvars, restvars>>

\* line 330
CreateRow ==
    /\ fpc = "create_row"
    /\ out' = [none |-> FALSE, row |-> create_row(members, shifts, width),
               peaks |-> pks]
    /\ calls' = Append(calls, "create_row")
    /\ fpc' = "returned"
    /\ UNCHANGED <<temp, members, pks_ali, pks, shifts, width, alignvars, restvars>>

NextFeat ==
    \/ FormatHash \/ TestComplex \/ AlignPeaks \/ CalcGoScore
    \/ CalcWidth \/ Pairwise \/ CreateRow

SpecFeat == InitFeat /\ [][NextFeat]_vars

----------------------------------------------------------------------------
(* Properties of the pipeline, checked under SpecFeat *)

\* validation has been done
Tested == fpc \notin {"format_hash", "test_complex"}

\* align_peaks has run and returned True
Aligned ==
    \/ fpc \in {"calc_go_score", "calc_width", "pairwise", "create_row"}
    \/ fpc = "returned" /\ ~out.none

HasPeaks(m) == Len(m.peaks) > 0

\* C7: a complex with fewer than 2 or more than 100 members is rejected
\* before alignment: gen_feat returns no feature row and no peak rows and
\* calls neither align_peaks nor GO scoring, calc_width or pairwise;
\* complexes with exactly 2 and exactly 100 members pass validation.
C7_SizeValidation ==
    Tested =>
        IF Len(members) < 2 \/ Len(members) > 100
        THEN /\ fpc = "returned"
             /\ out.none /\ out.row = <<>> /\ out.peaks = <<>>
             /\ calls = <<"format_hash", "test_complex">>
        ELSE Len(members) \in {2, 100} =>
                 "align_peaks" \in SetOf(calls) \/ fpc = "align_peaks"

\* C7 witness: a complex of 101 members, all with a peak, was rejected
C7_Witness ==
    /\ Len(members) = 101
    /\ \A i \in 1..Len(members) : HasPeaks(members[i])
    /\ fpc = "returned" /\ out.none
    /\ calls = <<"format_hash", "test_complex">>

\* C8: when every member of a size-valid complex has no peak, align_peaks
\* fails without calling the aligner, no feature extraction runs and
\* neither a feature row nor a peak row is returned; when at least one
\* member has a peak, alignment succeeds.
C8_Unalignable ==
    "align_peaks" \in SetOf(calls) =>
        IF \A i \in 1..Len(members) : ~HasPeaks(members[i])
        THEN /\ fpc = "returned"
             /\ out.none /\ out.row = <<>> /\ out.peaks = <<>>
             /\ pks = <<>>
             /\ calls = <<"format_hash", "test_complex", "align_peaks">>
        ELSE Aligned

\* C8 witness: three members, none with a peak
C8_Witness ==
    /\ Len(members) = 3
    /\ \A i \in 1..Len(members) : ~HasPeaks(members[i])
    /\ fpc = "returned" /\ out.none
    /\ calls = <<"format_hash", "test_complex", "align_peaks">>

\* the members with peaks, and what the aligner returns for their peak lists
Present == SelectSeq(members, HasPeaks)
AlignerValues ==
    alligner([k \in 1..Len(Present) |-> Present[k].peaks], max_trial_default).ret.val

\* m2 is twice the median of the list v
IsTwiceMedian(v, m2) ==
    LET n == Len(v)
        below(x) == Cardinality({i \in 1..n : v[i] < x})
        upto(x)  == Cardinality({i \in 1..n : v[i] <= x})
    IN  \E a, b \in SetOf(v) :
            /\ a + b = m2
            /\ 2 * below(a) < n /\ n <= 2 * upto(a)
            /\ 2 * below(b) <= n /\ n < 2 * upto(b)

\* C9: after a successful align_peaks every member with peaks has the value
\* the aligner returned at its position among the members with peaks, and
\* every member without peaks has the rounded median of those values (a
\* whole number at most one half away from the median, hence between the
\* smallest and the largest aligned peak).
C9_Imputation ==
    Aligned =>
        /\ \A k \in 1..Len(Present) :
              pks_ali[Present[k].acc] = Num(AlignerValues[k])
        /\ \A i \in 1..Len(members) :
              ~HasPeaks(members[i]) =>
                  /\ ~pks_ali[members[i].acc].nan
                  /\ \E m2 \in 0..(2 * MaxFeatPeak) :
                        /\ IsTwiceMedian(AlignerValues, m2)
                        /\ 2 * pks_ali[members[i].acc].v - m2 \in {-1, 0, 1}
                  /\ \E k \in 1..Len(Present) :
                        AlignerValues[k] <= pks_ali[members[i].acc].v
                  /\ \E k \in 1..Len(Present) :
                        AlignerValues[k] >= pks_ali[members[i].acc].v

\* C9 witness: aligned peaks 0 and 1 (median one half) and a member without
\* peaks between them, which gets 0
C9_Witness ==
    /\ Aligned /\ Len(members) = 3
    /\ HasPeaks(members[1]) /\ ~HasPeaks(members[2]) /\ HasPeaks(members[3])
    /\ pks_ali[members[1].acc] = Num(0)
    /\ pks_ali[members[3].acc] = Num(1)
    /\ pks_ali[members[2].acc] = Num(0)

\* C10: after a successful alignment of a complex built by format_hash the
\* consensus-peak mapping has exactly one entry per member: as many entries
\* as members, and the members' accessions as keys.
C10_OneEntryPerMember ==
    Aligned =>
        /\ Cardinality(DOMAIN pks_ali) = Len(members)
        /\ DOMAIN pks_ali = SetOf(get_members(members))

\* C10 witness: a record that repeats an accession, aligned with one member
\* with peaks and one without
C10_Witness ==
    /\ Aligned
    /\ Len(temp) = 3 /\ Len(members) = 2
    /\ HasPeaks(members[1]) /\ ~HasPeaks(members[2])
    /\ Cardinality(DOMAIN pks_ali) = 2

----------------------------------------------------------------------------
(* Lifecycle of gen_feat, checked under SpecFeat *)

\* the positions of the call x in the history of calls
CallsAt(x) == {i \in 1..Len(calls) : calls[i] = x}

\* some call x precedes every call y
Before(x, y) == \A i \in CallsAt(x), j \in CallsAt(y) : i < j

\* C11: validation, alignment, width, pairwise aggregation and
\* serialization each run at most once for a complex and in that order;
\* create_row runs only after validation passed, align_peaks returned True
\* and calc_width and pairwise ran; after a rejection or a failed alignment
\* no later phase runs.
C11_Lifecycle ==
    LET phases == <<"test_complex", "align_peaks", "calc_width", "pairwise",
                    "create_row">>
        ran(x) == CallsAt(x) # {}
    IN  /\ \A k \in 1..Len(phases) : Cardinality(CallsAt(phases[k])) <= 1
        /\ \A k \in 1..(Len(phases) - 1) :
               ran(phases[k + 1]) =>
                   ran(phases[k]) /\ Before(phases[k], phases[k + 1])
        /\ ran("create_row") =>
               /\ Len(members) >= 2 /\ Len(members) <= 100
               /\ \E i \in 1..Len(members) : HasPeaks(members[i])
               /\ DOMAIN pks_ali = SetOf(get_members(members))
               /\ ~out.none
        /\ (Tested /\ (Len(members) < 2 \/ Len(members) > 100)) =>
               /\ ~ran("align_peaks") /\ ~ran("calc_width")
               /\ ~ran("pairwise") /\ ~ran("create_row")
               /\ fpc = "returned"
        /\ (ran("align_peaks")
              /\ \A i \in 1..Len(members) : ~HasPeaks(members[i])) =>
               /\ ~ran("calc_width") /\ ~ran("pairwise")
               /\ ~ran("create_row")
               /\ fpc = "returned"

\* C11 witness: a complex of three members, one of them without peaks, went
\* through all phases and was serialized
C11_Witness ==
    /\ fpc = "returned" /\ ~out.none
    /\ Len(members) = 3
    /\ \E i \in 1..3 : ~HasPeaks(members[i])
    /\ Before("test_complex", "align_peaks")
    /\ Before("pairwise", "create_row")
    /\ CallsAt("create_row") # {}

\* the consensus peaks of the members, in member order
Consensus == [i \in 1..Len(members) |-> pks_ali[members[i].acc].v]

\* the sum over all i < j of |s[i] - s[j]|, row by row
PairAbsSum(s) ==
    LET n == Len(s)
        rowsum(i) == SumSeq([j \in 1..n |-> IF j > i THEN Abs(s[i] - s[j]) ELSE 0],
                            1, n)
    IN  SumSeq([i \in 1..n |-> rowsum(i)], 1, n)

\* C15: the SHFT of a serialized complex is the mean over all unordered
\* member pairs of the absolute difference of the two members' consensus
\* peaks (the sum of the differences over the number of pairs); for two
\* members with the different single peaks p and e the consensus is p, e
\* and the shift is |p - e|.
C15_Shift ==
    (fpc = "returned" /\ ~out.none) =>
        /\ out.row.SHFT.sum = PairAbsSum(Consensus)
        /\ 2 * out.row.SHFT.n = Len(members) * (Len(members) - 1)
        /\ (/\ Len(members) = 2
            /\ Len(members[1].peaks) = 1 /\ Len(members[2].peaks) = 1
            /\ members[1].peaks # members[2].peaks) =>
               /\ Consensus = <<members[1].peaks[1], members[2].peaks[1]>>
               /\ out.row.SHFT =
                     [sum |-> Abs(members[1].peaks[1] - members[2].peaks[1]),
                      n |-> 1]

\* C15 witness: the end-to-end example, peaks 4 and 5, consensus 4, 5 and
\* shift 1
C15_Witness ==
    /\ fpc = "returned" /\ ~out.none
    /\ temp \in ExampleTemps
    /\ Consensus = <<4, 5>>
    /\ out.row.SHFT = [sum |-> 1, n |-> 1]

\* C19: for every member whose consensus peak p is inside the profile
\* (0 <= p < F) the slice calc_width passes to fwhm is the run of fractions
\* p-5 .. p+4 clipped to the profile: it is not empty and contains index p.
C19_WidthWindow ==
    width # <<>> =>
        \A i \in 1..Len(members) :
            LET p == pks_ali[members[i].acc].v
            IN  (0 <= p /\ p < F) =>
                    /\ width[i].start = (IF p - q < 0 THEN 0 ELSE p - q)
                    /\ width[i].stop = (IF p + q > F THEN F ELSE p + q)
                    /\ width[i].start <= p /\ p < width[i].stop

\* the peak lists align_peaks hands to alligner
Pres == [k \in 1..Len(Present) |-> Present[k].peaks]

\* C22: for the peak lists of an aligned complex, in every tier (with the
\* default budget and with budgets that make the search fail) alligner
\* returns one value per list and the value at position i is an element of
\* list i; after align_peaks the consensus peak of every member that has
\* peaks is one of its own peaks.
C22_OwnPeaks ==
    Aligned =>
        /\ \A mt \in Budgets :
              LET al == alligner(Pres, mt)
              IN  /\ ~al.ret.none /\ ~al.ret.raised
                  /\ Len(al.ret.val) = Len(Pres)
                  /\ \A i \in 1..Len(Pres) : al.ret.val[i] \in SetOf(Pres[i])
        /\ \A i \in 1..Len(members) :
              HasPeaks(members[i]) =>
                  /\ ~pks_ali[members[i].acc].nan
                  /\ pks_ali[members[i].acc].v \in SetOf(members[i].peaks)

\* C22 witness: an aligned complex of a member with the peak 2, a member
\* without peaks and a member with the peaks 0 and 1: the search gives 2
\* and 1, and so does min_sd when the budget is 1, from the column in which
\* the first list is padded with its own last peak; the member without
\* peaks gets 2, which is no detected peak of its own
C22_Witness ==
    /\ Aligned /\ Len(members) = 3
    /\ Pres = << <<2>>, <<0, 1>> >>
    /\ ~HasPeaks(members[2])
    /\ alligner(Pres, max_trial_default) =
           [ret |-> Value(<<2, 1>>), calls |-> <<"shortest_path">>]
    /\ alligner(Pres, 1) =
           [ret |-> Value(<<2, 1>>), calls |-> <<"shortest_path", "min_sd">>]
    /\ pks_ali[members[1].acc] = Num(2)
    /\ pks_ali[members[3].acc] = Num(1)
    /\ pks_ali[members[2].acc] = Num(2)

----------------------------------------------------------------------------
(* mp_cmplx over a file.  A line is a header line or a record line.  A     *)
(* record line is the list of its tab-separated fields ("things"): the ID, *)
(* the MB field as the list of its accessions, the FT field as the list of *)
(* its intensity vectors, each vector given by the peaks calc_peaks finds  *)
(* in it.  The ID of the record on line n is n.                            *)

\* a file has at most MaxLines lines
MaxLines == 3
\* the MB and FT fields of a line of the file have at most MaxFileMB entries
MaxFileMB == 2
\* in the file, accessions are drawn from 1..MaxFileAcc
MaxFileAcc == 2
\* in the file, a vector has the peaks 1..k for some k up to MaxFilePeak
MaxFilePeak == 2

\* the columns of a header line "ID\tMB\tFT"
Header == <<"ID", "MB", "FT">>

\* lines 312-318 on the split fields; inten[idx] of a missing vector is an
\* IndexError
RECURSIVE format_hash_idx(_, _, _, _)
format_hash_idx(accs, inten, idx, mem) ==
    IF idx > Len(accs) THEN Value(mem)
    ELSE IF accs[idx] \in SetOf(get_members(mem))
    THEN format_hash_idx(accs, inten, idx + 1, mem)
    ELSE IF idx > Len(inten) THEN Raised
    ELSE format_hash_idx(accs, inten, idx + 1,
                         Append(mem, [acc |-> accs[idx], peaks |-> inten[idx]]))

\* lines 305-319 on the dict temp; a missing key is a KeyError
format_hash_temp(t) ==
    IF "FT" \notin DOMAIN t \/ "MB" \notin DOMAIN t \/ "ID" \notin DOMAIN t
    THEN Raised
    ELSE format_hash_idx(t["MB"], t["FT"], 1, <<>>)

\* lines 82-87: one row per key of self.pks
get_peaks(name, rows) ==
    [k \in 1..Len(rows) |->
        [MB |-> rows[k].MB, ID |-> name, PKS |-> rows[k].PKS, SEL |-> rows[k].SEL]]

GenFeatNone == [raised |-> FALSE, none |-> TRUE, row |-> <<>>, peaks |-> <<>>]
GenFeatRaised == [raised |-> TRUE, none |-> TRUE, row |-> <<>>, peaks |-> <<>>]

\* lines 322-332 for the complex called name with the members mem
gen_feat(name, mem) ==
    IF ~test_complex(mem) THEN GenFeatNone
    ELSE LET r == align_peaks(mem, <<>>)
         IN  CASE r.ret = "raise" -> GenFeatRaised
               [] r.ret = "None" -> GenFeatNone
               [] OTHER ->
                    LET cr == create_row(mem, pairwise(mem, r.pks_ali),
                                         calc_width(mem, r.pks_ali))
                    IN  [raised |-> FALSE, none |-> FALSE,
                         row |-> [ID |-> name, MB |-> cr.MB, SHFT |-> cr.SHFT,
                                  W |-> cr.W],
                         peaks |-> get_peaks(name, r.pks)]

\* line 364
mp_cmplx_extend(pf, peaks) == pf \o peaks

\* lines 359-364 for the dict t: what becomes of feat_file and peaks_file,
\* or an exception
mp_cmplx_tail(t, ff, pf) ==
    IF DOMAIN t = {}
    THEN [raised |-> FALSE, feat_file |-> ff, peaks_file |-> pf]
    ELSE LET c == format_hash_temp(t)
         IN  IF c.raised
             THEN [raised |-> TRUE, feat_file |-> ff, peaks_file |-> pf]
             ELSE LET g == gen_feat(t["ID"], c.val)
                  IN  IF g.raised
                      THEN [raised |-> TRUE, feat_file |-> ff, peaks_file |-> pf]
                      ELSE IF ~g.none
                      THEN [raised |-> FALSE, feat_file |-> Append(ff, g.row),
                            peaks_file |-> mp_cmplx_extend(pf, g.peaks)]
                      ELSE [raised |-> FALSE, feat_file |-> ff, peaks_file |-> pf]

FilePeakLists == {[i \in 1..k |-> i] : k \in 0..MaxFilePeak}
FileMBs == {s \in SeqsUpTo(1..MaxFileAcc, MaxFileMB) : Len(s) >= 1}
FileFTs == {s \in SeqsUpTo(FilePeakLists, MaxFileMB) : Len(s) >= 1}

\* the record lines with ID n: all three fields, or the first one or two
RecordLines(n) ==
    {<<n>>} \cup {<<n, mb>> : mb \in FileMBs}
            \cup {<<n, mb, ft>> : mb \in FileMBs, ft \in FileFTs}

InitFile ==
    /\ lines = <<>>
    /\ header = <<>>
    /\ temp = <<>>
    /\ feat_file = <<>>
    /\ peaks_file = <<>>
    /\ fstate = "open"
    /\ CorIdle
    /\ TwoIdle
    /\ LocalIdle
    /\ members = <<>>
    /\ fpc = "idle"
    /\ pks_ali = <<>>
    /\ pks = <<>>
    /\ shifts = <<>>
    /\ width = <<>>
    /\ calls = <<>>
    /\ out = NoneNone
    /\ aoa = <<>>
    /\ max_trial = max_trial_default
    /\ pc = "idle"
    /\ result = <<>>
    /\ trial = 0
    /\ pops = 0
    /\ gen = <<>>
    /\ sp = None
    /\ msd = None
    /\ ali = [ret |-> None, calls |-> <<>>]

\* lines 351-354 and 359-364: a header line; temp keeps the previous record
ReadHeader ==
    /\ fstate = "open"
    /\ Len(lines) < MaxLines
    /\ lines' = Append(lines, [kind |-> "header", things |-> Header])
    /\ header' = Header
    /\ temp' = temp
    /\ LET r == mp_cmplx_tail(temp, feat_file, peaks_file)
       IN  /\ feat_file' = r.feat_file
           /\ peaks_file' = r.peaks_file
           /\ fstate' = IF r.raised THEN "raised" ELSE "open"
    /\ UNCHANGED <<members, fpc, pks_ali, pks, shifts, width, calls, out,
                   alignvars, corvars, twovars, localvars>>

\* lines 351-352 and 355-364: a record line
ReadRecord ==
    /\ fstate = "open"
    /\ Len(lines) < MaxLines
    /\ \E things \in RecordLines(Len(lines) + 1) :
          LET t == DictZip(header, things)
              r == mp_cmplx_tail(t, feat_file, peaks_file)
          IN  /\ lines' = Append(lines, [kind |-> "record", things |-> things])
              /\ temp' = t
              /\ feat_file' = r.feat_file
              /\ peaks_file' = r.peaks_file
              /\ fstate' = IF r.raised THEN "raised" ELSE "open"
    /\ UNCHANGED <<header, members, fpc, pks_ali, pks, shifts, width, calls,
                   out, alignvars, corvars, twovars, localvars>>

\* line 365: the end of the file
Return ==
    /\ fstate = "open"
    /\ fstate' = "returned"
    /\ UNCHANGED <<lines, header, temp, feat_file, peaks_file, members, fpc,
                   pks_ali, pks, shifts, width, calls, out, alignvars,
                   corvars, twovars, localvars>>

NextFile == ReadHeader \/ ReadRecord \/ Return

SpecFile == InitFile /\ [][NextFile]_vars

----------------------------------------------------------------------------
(* Properties of mp_cmplx, checked under SpecFile *)

\* a record line with its three fields and a vector for every MB entry
WellFormed(l) ==
    /\ l.kind = "record"
    /\ Len(l.things) = 3
    /\ Len(l.things[3]) >= Len(l.things[2])

Malformed(l) == l.kind = "record" /\ ~WellFormed(l)

\* the positions in an MB field of the first occurrence of each accession
FirstOcc(mb) ==
    SelectSeq([i \in 1..Len(mb) |-> i],
              LAMBDA i : \A j \in 1..(i - 1) : mb[j] # mb[i])

\* line n is a well-formed record below a header whose complex has between
\* 2 and 100 members, one of them at least with a peak
Passes(n) ==
    /\ WellFormed(lines[n])
    /\ \E k \in 1..(n - 1) : lines[k].kind = "header"
    /\ LET fo == FirstOcc(lines[n].things[2])
       IN  /\ Len(fo) >= 2 /\ Len(fo) <= 100
           /\ \E k \in 1..Len(fo) : lines[n].things[3][fo[k]] # <<>>

\* the IDs of the records read so far that pass, in input order
PassingIDs == SelectSeq([n \in 1..Len(lines) |-> n], Passes)

\* C12: a malformed record (a missing FT or MB field, fewer intensity
\* vectors than accessions) is skipped: the run does not abort, and when it
\* returns, every well-formed passing record before or after it has its
\* feature row.
C12_MalformedIsLocal ==
    /\ fstate # "raised"
    /\ fstate = "returned" =>
          \A n \in 1..Len(lines) :
              Passes(n) => \E k \in 1..Len(feat_file) : feat_file[k].ID = n

\* C13: while mp_cmplx runs and when it returns, the feature table has
\* exactly one row for each record that passed validation and alignment, in
\* input order, and no other row.
C13_OneRowPerRecord ==
    fstate \in {"open", "returned"} =>
        [k \in 1..Len(feat_file) |-> feat_file[k].ID] = PassingIDs

\* the concatenation of the first k lists of ss
RECURSIVE Flatten(_, _)
Flatten(ss, k) == IF k = 0 THEN <<>> ELSE Flatten(ss, k - 1) \o ss[k]

\* the peak rows a serialized complex must contribute, from its record line
\* and its feature row fr: one per member, with the member's raw peaks or,
\* without raw peaks, the imputed value as PKS, and the consensus peak as SEL
ExpectedPeakRows(fr) ==
    LET mb      == lines[fr.ID].things[2]
        ft      == lines[fr.ID].things[3]
        fo      == FirstOcc(mb)
        raw(j)  == ft[fo[j]]
        present == SelectSeq([j \in 1..Len(fo) |-> j], LAMBDA j : raw(j) # <<>>)
        av      == alligner([k \in 1..Len(present) |-> raw(present[k])],
                            max_trial_default).ret.val
        sel(j)  == IF raw(j) # <<>>
                   THEN av[CHOOSE k \in 1..Len(present) : present[k] = j]
                   ELSE impute(av)
    IN  [j \in 1..Len(fo) |->
            [MB  |-> mb[fo[j]],
             ID  |-> fr.ID,
             PKS |-> IF raw(j) # <<>> THEN raw(j) ELSE <<sel(j)>>,
             SEL |-> Num(sel(j))]]

\* C14: every serialized complex contributes to the peak table exactly one
\* row per member accession, in member order, with the complex's id, the
\* member's consensus peak as SEL and as PKS the raw peaks or, for a member
\* without peaks, the imputed value; a complex that is not serialized
\* contributes no peak row.
C14_PeakRows ==
    \A n \in 1..Len(lines) :
        LET rows == SelectSeq(peaks_file, LAMBDA r : r.ID = n)
        IN  IF \E k \in 1..Len(feat_file) : feat_file[k].ID = n
            THEN /\ rows = ExpectedPeakRows([ID |-> n])
                 /\ Len(rows) = Len(FirstOcc(lines[n].things[2]))
            ELSE rows = <<>>

----------------------------------------------------------------------------
(* calc_corr.  Intensities are whole numbers.  The window means are kept   *)
(* as window sums (W times the mean) and the deviations as W times the     *)
(* deviation, so that all sums are whole numbers; an entry of the result   *)
(* is NaN or the number num / sqrt(den2).                                  *)

\* a profile has at most MaxLen fractions
MaxLen == 11
\* intensities are drawn from 0..MaxInten
MaxInten == 1

\* calc_corr's default W
W_default == 10
\* the number of NaN appended by calc_corr
nan_pad == 9

CorNaN == [nan |-> TRUE, num |-> 0, den2 |-> 0]

\* index x of a list of m elements extended by reflection at both ends
\* (d c b a | a b c d | d c b a), 0-based
Reflect(x, m) ==
    LET r == x % (2 * m)
    IN  IF r < m THEN r ELSE 2 * m - 1 - r

\* uniform_filter(a, W), lines 108-109, times W: at index i the sum of the W
\* elements from i - W // 2 on, the input reflected at its ends
uniform_filter(a, W) ==
    [i \in 1..Len(a) |->
        SumSeq([k \in 1..W |-> a[Reflect((i - 1) - (W \div 2) + (k - 1), Len(a)) + 1]],
               1, W)]

\* lines 105-129: the vector appended to self.cor
calc_corr(a, b, W) ==
    LET m   == Len(a)
        sl  == PySlice(W \div 2, ((0 - W) \div 2) + 1, m)
        n   == IF sl.stop > sl.start THEN sl.stop - sl.start ELSE 0
        am  == uniform_filter(a, W)
        bm  == uniform_filter(b, W)
        amc == [j \in 1..n |-> am[sl.start + j]]
        bmc == [j \in 1..n |-> bm[sl.start + j]]
        mask(i, j) == i >= j /\ i < j + W
        dam(i, j) == IF mask(i, j) THEN W * a[i] - amc[j] ELSE 0
        dbm(i, j) == IF mask(i, j) THEN W * b[i] - bmc[j] ELSE 0
        ssAs(j) == SumSeq([i \in 1..m |-> dam(i, j) * dam(i, j)], 1, m)
        ssBs(j) == SumSeq([i \in 1..m |-> dbm(i, j) * dbm(i, j)], 1, m)
        D(j)    == SumSeq([i \in 1..m |-> dam(i, j) * dbm(i, j)], 1, m)
        entry(j) == IF ssAs(j) * ssBs(j) = 0 THEN CorNaN
                    ELSE [nan |-> FALSE, num |-> D(j), den2 |-> ssAs(j) * ssBs(j)]
    IN  [j \in 1..n |-> entry(j)] \o [k \in 1..nan_pad |-> CorNaN]

\* the profiles of m fractions: constant, or a single spike
Profiles(m) ==
    {[i \in 1..m |-> c] : c \in 0..MaxInten}
        \cup {[i \in 1..m |-> IF i = s THEN h ELSE 0] : s \in 1..m, h \in 1..MaxInten}

\* calc_corr on a pair of proteins with profiles of the same length and a
\* window of at most that length
InitCorr ==
    /\ \E m \in 1..MaxLen :
          /\ members \in {<<[acc |-> 1, inten |-> x], [acc |-> 2, inten |-> y]>> :
                             x \in Profiles(m), y \in Profiles(m)}
          /\ window \in 1..m
    /\ cor = <<>>
    /\ diff = <<>>
    /\ visited = <<>>
    /\ fpc = "calc_corr"
    /\ temp = <<>>
    /\ pks_ali = <<>>
    /\ pks = <<>>
    /\ shifts = <<>>
    /\ width = <<>>
    /\ calls = <<>>
    /\ out = NoneNone
    /\ FileIdle
    /\ TwoIdle
    /\ LocalIdle
    /\ aoa = <<>>
    /\ max_trial = max_trial_default
    /\ pc = "idle"
    /\ result = <<>>
    /\ trial = 0
    /\ pops = 0
    /\ gen = <<>>
    /\ sp = None
    /\ msd = None
    /\ ali = [ret |-> None, calls |-> <<>>]

\* lines 100-129
CalcCorr ==
    /\ fpc = "calc_corr"
    /\ cor' = Append(cor, calc_corr(members[1].inten, members[2].inten, window))
    /\ fpc' = "done"
    /\ UNCHANGED <<temp, members, pks_ali, pks, shifts, width, calls, out,
                   window, diff, visited, alignvars, filevars, twovars, localvars>>

NextCorr == CalcCorr

SpecCorr == InitCorr /\ [][NextCorr]_vars

\* C16: for profiles of length F and every window length W from 1 to F the
\* vector calc_corr produces has exactly F entries.
C16_LengthF ==
    fpc = "done" => Len(cor[1]) = Len(members[1].inten)

----------------------------------------------------------------------------
(* pairwise and create_row of an aligned complex whose members have         *)
(* intensity profiles: the loop of pairwise one iteration at a time, then  *)
(* the averaging, then create_row.                                         *)

\* a complex with profiles has at most MaxCorMembers members
MaxCorMembers == 3
\* its members have one common consensus peak, drawn from 0..MaxCorPeak
MaxCorPeak == 1

\* line 177: |p1 - p2| elementwise
calc_diff(a, b) == [i \in 1..Len(a) |-> Abs(a[i] - b[i])]

\* a variant of the mean that skips NaN (np.nanmean)
cor_nanmean(cs) ==
    [j \in 1..Len(cs[1]) |->
        LET terms == SelectSeq([p \in 1..Len(cs) |-> cs[p][j]], LAMBDA x : ~x.nan)
        IN  [nan |-> terms = <<>>, terms |-> terms]]

\* line 169, np.mean(self.cor, axis=0): per position NaN as soon as one
\* pair's entry is NaN, else the mean of the pairs' entries (kept as the
\* list of its terms)
cor_mean(cs) ==
    [j \in 1..Len(cs[1]) |->
        IF \E p \in 1..Len(cs) : cs[p][j].nan
        THEN [nan |-> TRUE, terms |-> <<>>]
        ELSE [nan |-> FALSE, terms |-> [p \in 1..Len(cs) |-> cs[p][j]]]]

\* line 170, np.mean(self.diff, axis=0): per position the sum over the pairs
\* and their number
diff_mean(ds) ==
    [j \in 1..Len(ds[1]) |->
        [sum |-> SumSeq([p \in 1..Len(ds) |-> ds[p][j]], 1, Len(ds)),
         n |-> Len(ds)]]

\* aligned complexes of 2..MaxCorMembers proteins whose profiles have the
\* same length, long enough for a window of W_default
CorComplexes ==
    UNION {[1..n -> Profiles(m)] : n \in 2..MaxCorMembers, m \in W_default..MaxLen}

InitPairwise ==
    /\ \E c \in CorComplexes :
          /\ members = [i \in 1..Len(c) |-> [acc |-> i, inten |-> c[i]]]
          /\ pks_ali \in {[i \in 1..Len(c) |-> Num(v)] : v \in 0..MaxCorPeak}
    /\ window = W_default
    /\ cor = <<>>
    /\ diff = <<>>
    /\ shifts = <<>>
    /\ visited = <<>>
    /\ fpc = "pairwise"
    /\ temp = <<>>
    /\ pks = <<>>
    /\ width = <<>>
    /\ calls = <<>>
    /\ out = NoneNone
    /\ FileIdle
    /\ TwoIdle
    /\ LocalIdle
    /\ aoa = <<>>
    /\ max_trial = max_trial_default
    /\ pc = "idle"
    /\ result = <<>>
    /\ trial = 0
    /\ pops = 0
    /\ gen = <<>>
    /\ sp = None
    /\ msd = None
    /\ ali = [ret |-> None, calls |-> <<>>]

\* a variant of the loop body that leaves out calc_diff
PairwiseIter_no_diff ==
    /\ fpc = "pairwise"
    /\ Len(visited) < Len(fast_comb(Len(members)))
    /\ LET pairs == fast_comb(Len(members))[Len(visited) + 1]
           p1 == members[pairs[1]]
           p2 == members[pairs[2]]
       IN  /\ cor' = Append(cor, calc_corr(p1.inten, p2.inten, window))
           /\ diff' = diff
           /\ shifts' = Append(shifts, calc_shift(pks_ali, <<p1.acc, p2.acc>>))
           /\ visited' = Append(visited, pairs)
    /\ UNCHANGED <<temp, members, fpc, pks_ali, pks, width, calls, out, window,
                   alignvars, filevars, twovars, localvars>>

\* lines 164-167: one iteration of the loop over st.fast_comb(members, 2)
PairwiseIter ==
    /\ fpc = "pairwise"
    /\ Len(visited) < Len(fast_comb(Len(members)))
    /\ LET pairs == fast_comb(Len(members))[Len(visited) + 1]
           p1 == members[pairs[1]]
           p2 == members[pairs[2]]
       IN  /\ cor' = Append(cor, calc_corr(p1.inten, p2.inten, window))
           /\ diff' = Append(diff, calc_diff(p1.inten, p2.inten))
           /\ shifts' = Append(shifts, calc_shift(pks_ali, <<p1.acc, p2.acc>>))
           /\ visited' = Append(visited, pairs)
    /\ UNCHANGED <<temp, members, fpc, pks_ali, pks, width, calls, out, window,
                   alignvars, filevars, twovars, localvars>>

\* lines 169-171: the averaging after the loop
PairwiseMean ==
    /\ fpc = "pairwise"
    /\ Len(visited) = Len(fast_comb(Len(members)))
    /\ cor' = cor_mean(cor)
    /\ diff' = diff_mean(diff)
    /\ shifts' = [sum |-> SumSeq(shifts, 1, Len(shifts)), n |-> Len(shifts)]
    /\ fpc' = "create_row"
    /\ UNCHANGED <<temp, members, pks_ali, pks, width, calls, out, window,
                   visited, alignvars, filevars, twovars, localvars>>

\* lines 190-207, with the correlation and difference vectors
CreateRowVectors ==
    /\ fpc = "create_row"
    /\ out' = [none |-> FALSE,
               row |-> [MB |-> get_members(members), COR |-> cor,
                        SHFT |-> shifts, DIF |-> diff],
               peaks |-> pks]
    /\ fpc' = "returned"
    /\ UNCHANGED <<temp, members, pks_ali, pks, shifts, width, calls, corvars,
                   alignvars, filevars, twovars, localvars>>

NextPairwise == PairwiseIter \/ PairwiseMean \/ CreateRowVectors

SpecPairwise == InitPairwise /\ [][NextPairwise]_vars

----------------------------------------------------------------------------
(* Properties of pairwise, checked under SpecPairwise *)

\* the W fractions of the profile a from fraction j on are all equal: the
\* window has zero variance
ConstantWindow(a, j, W) == \A i \in j..(j + W - 1) : a[i] = a[j]

\* the positions of a profile of m fractions at which a window of W fits
ValidPositions(m, W) == 1..(m - W + 1)

\* C17: a zero-variance window raises no error: in the vector of a pair the
\* position of a window is NaN exactly when the window of one of the two
\* members has zero variance; in the aggregated COR it is NaN as soon as it
\* is NaN for one pair, that is when some member's window has zero
\* variance; and the complex still gets its feature row.
C17_Degeneracy ==
    LET m == Len(members[1].inten)
    IN  /\ fpc # "raised"
        /\ fpc = "pairwise" =>
              \A k \in 1..Len(cor) : \A j \in ValidPositions(m, window) :
                  cor[k][j].nan <=>
                      \/ ConstantWindow(members[visited[k][1]].inten, j, window)
                      \/ ConstantWindow(members[visited[k][2]].inten, j, window)
        /\ fpc = "returned" =>
              /\ ~out.none
              /\ Len(out.row.COR) = (m - window + 1) + nan_pad
              /\ \A j \in ValidPositions(m, window) :
                    out.row.COR[j].nan <=>
                        \E i \in 1..Len(members) :
                            ConstantWindow(members[i].inten, j, window)

\* C17 witness: a complex of three members was serialized whose first
\* member has a zero-variance second window while the windows of the two
\* others vary: the second COR entry is NaN, the first is a number
C17_Witness ==
    /\ fpc = "returned" /\ ~out.none
    /\ Len(members) = 3 /\ Len(members[1].inten) = MaxLen
    /\ ConstantWindow(members[1].inten, 2, window)
    /\ ~ConstantWindow(members[2].inten, 2, window)
    /\ ~ConstantWindow(members[3].inten, 2, window)
    /\ out.row.COR[2].nan
    /\ ~out.row.COR[1].nan

\* C20: pairwise calls calc_corr, calc_diff and calc_shift once for every
\* unordered pair of distinct members: during the loop the three
\* accumulators have one entry per visited pair, no pair has twice the same
\* member, no pair is visited twice in either order; when the loop is over
\* all n(n-1)/2 pairs have been visited and the means are over that many
\* entries.
C20_PairwiseCoverage ==
    LET n == Len(members)
    IN  /\ fpc = "pairwise" =>
              /\ Len(cor) = Len(visited)
              /\ Len(diff) = Len(visited)
              /\ Len(shifts) = Len(visited)
        /\ \A k \in 1..Len(visited) :
              /\ visited[k][1] \in 1..n /\ visited[k][2] \in 1..n
              /\ visited[k][1] # visited[k][2]
        /\ \A k, l \in 1..Len(visited) :
              k < l => /\ visited[k] # visited[l]
                       /\ visited[k] # <<visited[l][2], visited[l][1]>>
        /\ fpc \in {"create_row", "returned"} =>
              /\ 2 * Len(visited) = n * (n - 1)
              /\ \A i, j \in 1..n :
                    i < j => \E k \in 1..Len(visited) :
                                 visited[k] \in {<<i, j>>, <<j, i>>}
              /\ 2 * shifts.n = n * (n - 1)
              /\ \A j \in 1..Len(diff) : 2 * diff[j].n = n * (n - 1)
              /\ \A j \in 1..Len(cor) :
                    ~cor[j].nan => 2 * Len(cor[j].terms) = n * (n - 1)

\* C20 witness: the loop over a complex of three members is over and the
\* averaging has not been done: three entries in each accumulator
C20_Witness ==
    /\ fpc = "pairwise"
    /\ Len(members) = 3
    /\ Len(visited) = 3 /\ Len(cor) = 3 /\ Len(diff) = 3 /\ Len(shifts) = 3

----------------------------------------------------------------------------
(* Two ComplexProfile objects, each processed by its own gen_feat, the     *)
(* calls of the two interleaved in any order.  cx[c] holds the fields of   *)
(* object c and the position of its gen_feat.                              *)

\* the complexes format_hash builds from records of at most MaxFileMB
\* entries
TwoComplexes ==
    {format_hash(t) :
        t \in {s \in SeqsUpTo([acc : 1..MaxFileAcc, peaks : FilePeakLists], MaxFileMB) :
                  Len(s) >= 1}}

\* a variant in which pks is one dict shared by all objects (a class
\* attribute): every object reads the rows of the first
self_pks_shared(cxs, c) == cxs[1].pks

\* lines 47-58: self.pks is a dict of the object itself
self_pks(cxs, c) == cxs[c].pks

InitTwo ==
    /\ cx \in [1..2 ->
                 {[members |-> m, fpc |-> "test_complex", pks_ali |-> <<>>,
                   pks |-> <<>>, shifts |-> <<>>, width |-> <<>>,
                   out |-> NoneNone] : m \in TwoComplexes}]
    /\ window = 0
    /\ cor = <<>>
    /\ diff = <<>>
    /\ visited = <<>>
    /\ members = <<>>
    /\ fpc = "idle"
    /\ temp = <<>>
    /\ pks_ali = <<>>
    /\ pks = <<>>
    /\ shifts = <<>>
    /\ width = <<>>
    /\ calls = <<>>
    /\ out = NoneNone
    /\ FileIdle
    /\ LocalIdle
    /\ aoa = <<>>
    /\ max_trial = max_trial_default
    /\ pc = "idle"
    /\ result = <<>>
    /\ trial = 0
    /\ pops = 0
    /\ gen = <<>>
    /\ sp = None
    /\ msd = None
    /\ ali = [ret |-> None, calls |-> <<>>]

\* line 326, left operand, of object c
TwoTestComplex ==
    /\ \E c \in 1..2 :
          /\ cx[c].fpc = "test_complex"
          /\ cx' = [cx EXCEPT ![c].fpc = IF test_complex(cx[c].members)
                                          THEN "align_peaks" ELSE "returned"]
    /\ UNCHANGED <<alignvars, featvars, filevars, corvars, localvars>>

\* line 326, right operand, of object c
TwoAlignPeaks ==
    /\ \E c \in 1..2 :
          /\ cx[c].fpc = "align_peaks"
          /\ LET r == align_peaks(cx[c].members, self_pks(cx, c))
             IN  cx' = [cx EXCEPT ![c].pks_ali = r.pks_ali,
                                  ![c].pks = r.pks,
                                  ![c].fpc = CASE r.ret = "True" -> "calc_width"
                                               [] r.ret = "None" -> "returned"
                                               [] OTHER -> "raised"]
    /\ UNCHANGED <<alignvars, featvars, filevars, corvars, localvars>>

\* lines 327-328 of object c
TwoCalcWidth ==
    /\ \E c \in 1..2 :
          /\ cx[c].fpc = "calc_width"
          /\ cx' = [cx EXCEPT ![c].width = calc_width(cx[c].members, cx[c].pks_ali),
                              ![c].fpc = "pairwise"]
    /\ UNCHANGED <<alignvars, featvars, filevars, corvars, localvars>>

\* line 329 of object c
TwoPairwise ==
    /\ \E c \in 1..2 :
          /\ cx[c].fpc = "pairwise"
          /\ cx' = [cx EXCEPT ![c].shifts = pairwise(cx[c].members, cx[c].pks_ali),
                              ![c].fpc = "create_row"]
    /\ UNCHANGED <<alignvars, featvars, filevars, corvars, localvars>>

\* line 330 of object c, whose name is c
TwoCreateRow ==
    /\ \E c \in 1..2 :
          /\ cx[c].fpc = "create_row"
          /\ LET cr == create_row(cx[c].members, cx[c].shifts, cx[c].width)
             IN  cx' = [cx EXCEPT
                          ![c].out = [none |-> FALSE,
                                      row |-> [ID |-> c, MB |-> cr.MB,
                                               SHFT |-> cr.SHFT, W |-> cr.W],
                                      peaks |-> get_peaks(c, self_pks(cx, c))],
                          ![c].fpc = "returned"]
    /\ UNCHANGED <<alignvars, featvars, filevars, corvars, localvars>>

NextTwo ==
    \/ TwoTestComplex \/ TwoAlignPeaks \/ TwoCalcWidth \/ TwoPairwise
    \/ TwoCreateRow

SpecTwo == InitTwo /\ [][NextTwo]_vars

\* C18: whatever the interleaving of the calls of two complexes, the
\* feature row and the peak rows of each are those gen_feat gives for that
\* complex processed alone.
C18_Independent ==
    \A c \in 1..2 :
        cx[c].fpc = "returned" =>
            LET alone == gen_feat(c, cx[c].members)
            IN  /\ cx[c].out.none = alone.none
                /\ cx[c].out.row = alone.row
                /\ cx[c].out.peaks = alone.peaks

\* C18 witness: the first complex was serialized while the second, which
\* shares an accession with it, was aligned and still in its feature
\* extraction
C18_Witness ==
    /\ cx[1].fpc = "returned" /\ ~cx[1].out.none
    /\ cx[2].fpc = "pairwise" /\ cx[2].pks # <<>>
    /\ cx[1].members # cx[2].members
    /\ \E i \in 1..Len(cx[1].members), j \in 1..Len(cx[2].members) :
          cx[1].members[i].acc = cx[2].members[j].acc

----------------------------------------------------------------------------
(* differential.py: extract_inte and extract_local_peak, run on one row.   *)
(* The INT field of the row is a profile of F fractions; fraction i of the *)
(* profile is element i here, and its intensity is written i, so that a    *)
(* returned list tells which fractions it holds.                           *)

\* besides extract_inte's default, q is drawn from 0..MaxQ
MaxQ == 38

\* extract_inte's default q
q_default == 72

Qs == (0..MaxQ) \cup {q_default}

\* the elements of a Python slice of the list tmp
SliceOf(tmp, sl) ==
    IF sl.stop <= sl.start THEN <<>> ELSE SubSeq(tmp, sl.start + 1, sl.stop)

\* a variant without the two edge branches: always tmp[(pk - q):(pk + q)]
extract_local_peak_no_edge(r, qq) ==
    LET pk  == r.SEL - 1
        tmp == r.INT
        n   == Len(tmp)
    IN  IF 2 * qq > F THEN tmp
        ELSE SliceOf(tmp, PySlice(pk - qq, pk + qq, n))

\* extract_local_peak(row, q) with norm = False
extract_local_peak(r, qq) ==
    LET pk  == r.SEL - 1
        tmp == r.INT
        n   == Len(tmp)
    IN  IF 2 * qq > F THEN tmp
        ELSE IF pk < qq THEN SliceOf(tmp, PySlice(0, qq * 2, n))
        ELSE IF r.SEL > F - qq THEN SliceOf(tmp, PySlice(0 - (qq * 2), n, n))
        ELSE SliceOf(tmp, PySlice(pk - qq, pk + qq, n))

\* the column names of extract_inte: "1".."2q", or "1".."q" when q > 72/2
extract_inte_vals(qq) ==
    IF 2 * qq > F THEN [i \in 1..qq |-> i] ELSE [i \in 1..(2 * qq) |-> i]

InitLocal ==
    /\ df \in {[SEL |-> sel, INT |-> [i \in 1..F |-> i]] : sel \in 1..F}
    /\ qloc \in Qs
    /\ pksINT = <<>>
    /\ valcols = <<>>
    /\ lstate = "extract_inte"
    /\ cx = <<>>
    /\ window = 0
    /\ cor = <<>>
    /\ diff = <<>>
    /\ visited = <<>>
    /\ members = <<>>
    /\ fpc = "idle"
    /\ temp = <<>>
    /\ pks_ali = <<>>
    /\ pks = <<>>
    /\ shifts = <<>>
    /\ width = <<>>
    /\ calls = <<>>
    /\ out = NoneNone
    /\ FileIdle
    /\ aoa = <<>>
    /\ max_trial = max_trial_default
    /\ pc = "idle"
    /\ result = <<>>
    /\ trial = 0
    /\ pops = 0
    /\ gen = <<>>
    /\ sp = None
    /\ msd = None
    /\ ali = [calls |-> <<>>, ret |-> None]

\* extract_inte on the row: the pksINT column and the column names
ExtractInte ==
    /\ lstate = "extract_inte"
    /\ pksINT' = extract_local_peak(df, qloc)
    /\ valcols' = extract_inte_vals(qloc)
    /\ lstate' = "returned"
    /\ UNCHANGED <<df, qloc, alignvars, featvars, filevars, corvars, twovars>>

NextLocal == ExtractInte

SpecLocal == InitLocal /\ [][NextLocal]_vars

\* the list l is the fractions a+1 .. a+Len(l) of the profile, for some a
ConsecutiveOf(l, tmp) ==
    \E a \in 0..(Len(tmp) - Len(l)) : l = SubSeq(tmp, a + 1, a + Len(l))

\* what C21 says of a returned window, for the values of q in the set Q
LocalPeakWindow(Q) ==
    lstate = "returned" =>
        /\ qloc \in Q =>
              /\ Len(pksINT) = 2 * qloc
              /\ ConsecutiveOf(pksINT, df.INT)
              /\ df.SEL \in SetOf(pksINT)
              /\ df.SEL - 1 < qloc => pksINT = SubSeq(df.INT, 1, 2 * qloc)
              /\ df.SEL > F - qloc =>
                    pksINT = SubSeq(df.INT, F - 2 * qloc + 1, F)
        /\ 2 * qloc > F => pksINT = df.INT

\* C21 as stated, for every q <= 36 (here 0..36): extract_local_peak
\* returns 2q consecutive intensities of the profile and the window
\* contains fraction SEL, moved to the first or last 2q fractions near an
\* edge; for q > 36 it returns the whole profile.
C21_AnyQ == LocalPeakWindow(0..(F \div 2))

\* C21, amended: for every q in 1..36 extract_local_peak returns 2q
\* consecutive intensities of the profile and the window contains fraction
\* SEL, moved to the first or last 2q fractions near an edge; for q > 36 it
\* returns the whole profile.
C21_LocalPeak == LocalPeakWindow(1..(F \div 2))

\* C21 witness: a peak within q of the last fraction, the window moved to
\* the last 2q fractions
C21_Witness ==
    /\ lstate = "returned"
    /\ qloc = 12 /\ df.SEL = 70
    /\ pksINT = SubSeq(df.INT, 49, 72)

====
